---- MODULE Spec2Model ----
(***************************************************************************)
(* Model of src/hooks/auth/useAuth.ts: the four callbacks of useAuth()     *)
(* (login, logout, register, restore) as interleaved asynchronous          *)
(* invocations.  An invocation is suspended at each `await`; one action    *)
(* resumes it with the outcome of the awaited operation and runs it up to  *)
(* the next `await` (or to its return / throw).                            *)
(***************************************************************************)
EXTENDS Integers, Sequences, FiniteSets, TLC

\* Number of invocations of the four callbacks in one run.
MaxInv == 2

Inv == 1..MaxInv

\* Mnemonics the caller may supply; "bad" fails the word-list/checksum check.
Mnemonics == {"m1", "bad"}
ValidMnemonics == {"m1"}
Device == "dev1"
ProfileData == "profile1"

VARIABLES
  account,       \* useAuthStore's s.account: the stored session, or NoAccount
  call,          \* call[i]: kind, position and locals of invocation i
  remote,        \* every remote-service call issued: who, which, input, outcome
  loginCalls,    \* every call of userDataLogin: who and the three arguments
  logoutCalls,   \* the invocations that called userDataLogout
  syncCalls,     \* every call of syncData: who and the three arguments
  nextChallenge, \* remote service: next challenge code to issue
  nextToken,     \* remote service: next bearer token / session id to issue
  changed,       \* changed[i]: some step of invocation i changed account
  authAtStart,   \* authAtStart[i]: loggedIn when logout / restore i was called
  authAtReturn,  \* authAtReturn[i]: loggedIn when logout / restore i ended
  overlaps,      \* overlaps[i]: the logins in flight when login i was called
  clearedAccount,\* clearedAccount[i]: the session a step of i cleared, if any
  syncedUnder    \* syncedUnder[i]: the session stored when i called syncData

vars == <<account, call, remote, loginCalls, logoutCalls, syncCalls,
          nextChallenge, nextToken, changed, authAtStart, authAtReturn,
          overlaps, clearedAccount, syncedUnder>>

----------------------------------------------------------------------------
\* Values.  Every value is a record of one shape so that any two compare.
\*   tag: what it is; m: the mnemonic (account) it derives from or belongs to;
\*   n: challenge / token number; d: plaintext carried; enc: encoding.

V(tag, m, n, d, enc) == [tag |-> tag, m |-> m, n |-> n, d |-> d, enc |-> enc]

NoVal == V("none", "-", 0, "-", "-")

\* keysFromMnemonic: deterministic key material of a valid mnemonic.
keysFromMnemonic(m) ==
  [publicKey  |-> V("publicKey", m, 0, "-", "bytes"),
   privateKey |-> V("privateKey", m, 0, "-", "bytes"),
   seed       |-> V("seed", m, 0, "-", "bytes")]

NoKeys == [publicKey |-> NoVal, privateKey |-> NoVal, seed |-> NoVal]

\* The two encoders keep the bytes and differ in alphabet.
bytesToBase64(b) == [b EXCEPT !.enc = "base64"]
bytesToBase64Url(b) == [b EXCEPT !.enc = "base64url"]

\* signChallenge: a signature by the private key over the challenge code.
signChallenge(keys, challenge) ==
  V("signature", keys.privateKey.m, challenge.n, "-", "raw")

\* encryptData: the plaintext under the seed; opaque without the seed.
encryptData(data, seed) == V("encrypted", seed.m, 0, data, "raw")

Challenge(c) == V("challenge", "-", c, "-", "raw")
Token(m, n) == V("token", m, n, "-", "raw")
SessionId(m, n) == V("sessionId", m, n, "-", "raw")
User(m) == V("user", m, 0, "-", "raw")
Profile == V("profile", "-", 0, ProfileData, "raw")
Bookmarks(m) == V("bookmarks", m, 0, "-", "raw")
Progress(m) == V("progress", m, 0, "-", "raw")

\* A login / register response.  loginAccount's response carries no user.
NoResult == [token |-> NoVal, sessionId |-> NoVal, user |-> NoVal]
LoginResponse(m, n) ==
  [token |-> Token(m, n), sessionId |-> SessionId(m, n), user |-> NoVal]
RegisterResponse(m, n) ==
  [token |-> Token(m, n), sessionId |-> SessionId(m, n), user |-> User(m)]

\* The stored session.
NoAccount == [token |-> NoVal, sessionId |-> NoVal, user |-> NoVal, seed |-> NoVal]

\* A session persisted by an earlier run of the application.
PriorAccount ==
  [token |-> Token("m0", 0), sessionId |-> SessionId("m0", 0),
   user |-> User("m0"), seed |-> bytesToBase64(keysFromMnemonic("m0").seed)]

\* const loggedIn = !!useAuthStore((s) => s.account)
loggedIn == account # NoAccount

\* The values an account object carries when it is passed whole.
AccountValues(a) == {a.token, a.sessionId, a.user, a.seed}

----------------------------------------------------------------------------
\* Invocations.

IdleCall ==
  [kind |-> "none", pc |-> "idle", mnemonic |-> "-", keys |-> NoKeys,
   challenge |-> NoVal, signature |-> NoVal, device |-> NoVal,
   result |-> NoResult, user |-> NoVal, bookmarks |-> NoVal,
   progress |-> NoVal, currentAccount |-> NoAccount, error |-> "-",
   steps |-> <<>>]

Ended(c) == c.pc \in {"done", "failed"}

\* The invocations called and not yet returned or thrown.
InFlight == {j \in Inv : call[j].pc # "idle" /\ ~Ended(call[j])}

\* Issue a remote call: it is logged, pending, when the code makes it.
Issue(i, op, input) ==
  remote' = remote \cup {[inv |-> i, op |-> op, input |-> input,
                          status |-> "pending", output |-> {}]}

\* The pending remote call `op` of i, and the log with it settled.
Pending(i, op) == CHOOSE r \in remote : r.inv = i /\ r.op = op /\ r.status = "pending"

Settled(i, op, status, output) ==
  (remote \ {Pending(i, op)})
    \cup {[Pending(i, op) EXCEPT !.status = status, !.output = output]}

SettleOnly(i, op, status, output) ==
  remote' = Settled(i, op, status, output)

SettleAndIssue(i, op, output, op2, input2) ==
  remote' = Settled(i, op, "ok", output)
              \cup {[inv |-> i, op |-> op2, input |-> input2,
                     status |-> "pending", output |-> {}]}

\* The invocation throws: the callback's promise rejects with the raw error.
Throw(c, err) == [c EXCEPT !.pc = "failed", !.error = err]

Step(c, pc, name) == [c EXCEPT !.pc = pc, !.steps = Append(@, name)]

----------------------------------------------------------------------------
\* Collaborators of useAuthData().

\* userDataLogin(session, user, seed): installs the session in the store.
userDataLogin(i, session, user, seed) ==
  /\ account' = [token |-> session.token, sessionId |-> session.sessionId,
                 user |-> user, seed |-> seed]
  /\ loginCalls' = loginCalls \cup
       {[inv |-> i, session |-> session, user |-> user, seed |-> seed]}

\* userDataLogout(): clears the stored session.
userDataLogout(i) ==
  /\ account' = NoAccount
  /\ logoutCalls' = logoutCalls \cup {i}

\* syncData(user, progress, bookmarks): hands the fetched data on.
syncData(i, user, progress, bookmarks) ==
  syncCalls' = syncCalls \cup
    {[inv |-> i, user |-> user, progress |-> progress, bookmarks |-> bookmarks]}

----------------------------------------------------------------------------
Init ==
  /\ account \in {NoAccount, PriorAccount}
  /\ call = [i \in Inv |-> IdleCall]
  /\ remote = {}
  /\ loginCalls = {}
  /\ logoutCalls = {}
  /\ syncCalls = {}
  /\ nextChallenge = 1
  /\ nextToken = 1
  /\ changed = [i \in Inv |-> FALSE]
  /\ authAtStart = [i \in Inv |-> FALSE]
  /\ authAtReturn = [i \in Inv |-> FALSE]
  /\ overlaps = [i \in Inv |-> {}]
  /\ clearedAccount = [i \in Inv |-> NoAccount]
  /\ syncedUnder = [i \in Inv |-> NoAccount]

\* Invocations are numbered in the order they start.
CanStart(i) ==
  /\ call[i].pc = "idle"
  /\ \A j \in Inv : j < i => call[j].pc # "idle"

\* What the step did to the store, recorded for the invocation that took it.
\* loggedIn is recorded for the callbacks that read currentAccount (logout,
\* restore), the invocations in flight for login.
Observe(i) ==
  /\ changed' = [changed EXCEPT ![i] = @ \/ (account' # account)]
  /\ authAtStart' = [authAtStart EXCEPT ![i] =
       IF call[i].pc = "idle" /\ call'[i].kind \in {"logout", "restore"}
       THEN loggedIn ELSE @]
  /\ authAtReturn' = [authAtReturn EXCEPT ![i] =
       IF /\ Ended(call'[i]) /\ ~Ended(call[i])
          /\ call'[i].kind \in {"logout", "restore"}
       THEN account' # NoAccount ELSE @]
  /\ overlaps' = [overlaps EXCEPT ![i] =
       IF call[i].pc = "idle" /\ call'[i].kind = "login"
       THEN {j \in InFlight : call[j].kind = "login"} ELSE @]
  /\ clearedAccount' = [clearedAccount EXCEPT ![i] =
       IF account # NoAccount /\ account' = NoAccount THEN account ELSE @]
  /\ syncedUnder' = [syncedUnder EXCEPT ![i] =
       IF syncCalls' # syncCalls THEN account' ELSE @]

----------------------------------------------------------------------------
\* login (lines 51-74)

\* Line 53: login is called and suspends in keysFromMnemonic.
LoginStart(i, m) ==
  /\ CanStart(i)
  /\ call' = [call EXCEPT ![i] =
       Step([@ EXCEPT !.kind = "login", !.mnemonic = m],
            "keysFromMnemonic", "keysFromMnemonic")]
  /\ UNCHANGED <<account, remote, loginCalls, logoutCalls, syncCalls,
                 nextChallenge, nextToken>>
  /\ Observe(i)


\* LoginKeys with the challenge requested before the mnemonic is checked.
LoginKeysAfterRequest(i) ==
  /\ call[i].kind = "login" /\ call[i].pc = "keysFromMnemonic"
  /\ LET keys == keysFromMnemonic(call[i].mnemonic)
     IN /\ Issue(i, "getLoginChallengeToken", {bytesToBase64Url(keys.publicKey)})
        /\ \/ /\ call[i].mnemonic \in ValidMnemonics
              /\ call' = [call EXCEPT ![i] =
                   Step([@ EXCEPT !.keys = keys],
                        "getLoginChallengeToken", "getLoginChallengeToken")]
           \/ /\ call[i].mnemonic \notin ValidMnemonics
              /\ call' = [call EXCEPT ![i] = Throw(@, "InvalidMnemonic")]
  /\ UNCHANGED <<account, loginCalls, logoutCalls, syncCalls,
                 nextChallenge, nextToken>>
  /\ Observe(i)

\* Lines 53-58: key derivation settles; on success the public key is encoded
\* and the login challenge is requested for it.
LoginKeys(i) ==
  /\ call[i].kind = "login" /\ call[i].pc = "keysFromMnemonic"
  /\ \/ /\ call[i].mnemonic \in ValidMnemonics
        /\ LET keys == keysFromMnemonic(call[i].mnemonic)
               publicKeyBase64Url == bytesToBase64Url(keys.publicKey)
           IN /\ call' = [call EXCEPT ![i] =
                   Step([@ EXCEPT !.keys = keys],
                        "getLoginChallengeToken", "getLoginChallengeToken")]
              /\ Issue(i, "getLoginChallengeToken", {publicKeyBase64Url})
     \/ /\ call[i].mnemonic \notin ValidMnemonics
        /\ call' = [call EXCEPT ![i] = Throw(@, "InvalidMnemonic")]
        /\ UNCHANGED remote
  /\ UNCHANGED <<account, loginCalls, logoutCalls, syncCalls,
                 nextChallenge, nextToken>>
  /\ Observe(i)

\* LoginChallenge that keeps the first challenge ever issued instead of the
\* one this request returned.
LoginChallengeCached(i) ==
  /\ call[i].kind = "login" /\ call[i].pc = "getLoginChallengeToken"
  /\ \/ /\ call' = [call EXCEPT ![i] =
                Step([@ EXCEPT !.challenge = Challenge(1)],
                     "signChallenge", "signChallenge")]
        /\ SettleOnly(i, "getLoginChallengeToken", "ok",
                      {Challenge(nextChallenge)})
        /\ nextChallenge' = nextChallenge + 1
     \/ /\ call' = [call EXCEPT ![i] = Throw(@, "ChallengeRequestFailed")]
        /\ SettleOnly(i, "getLoginChallengeToken", "failed", {})
        /\ UNCHANGED nextChallenge
  /\ UNCHANGED <<account, loginCalls, logoutCalls, syncCalls, nextToken>>
  /\ Observe(i)

\* Lines 55-59: the challenge request settles; on success the challenge is
\* handed to signChallenge.
LoginChallenge(i) ==
  /\ call[i].kind = "login" /\ call[i].pc = "getLoginChallengeToken"
  /\ \/ /\ call' = [call EXCEPT ![i] =
                Step([@ EXCEPT !.challenge = Challenge(nextChallenge)],
                     "signChallenge", "signChallenge")]
        /\ SettleOnly(i, "getLoginChallengeToken", "ok",
                      {Challenge(nextChallenge)})
        /\ nextChallenge' = nextChallenge + 1
     \/ /\ call' = [call EXCEPT ![i] = Throw(@, "ChallengeRequestFailed")]
        /\ SettleOnly(i, "getLoginChallengeToken", "failed", {})
        /\ UNCHANGED nextChallenge
  /\ UNCHANGED <<account, loginCalls, logoutCalls, syncCalls, nextToken>>
  /\ Observe(i)

\* Lines 59 and 66: signing settles; on success the device is handed to
\* encryptData (the argument of loginAccount is built before the call).
LoginSign(i) ==
  /\ call[i].kind = "login" /\ call[i].pc = "signChallenge"
  /\ \/ call' = [call EXCEPT ![i] =
             Step([@ EXCEPT !.signature = signChallenge(call[i].keys, call[i].challenge)],
                  "encryptData", "encryptData")]
     \/ call' = [call EXCEPT ![i] = Throw(@, "SigningError")]
  /\ UNCHANGED <<account, remote, loginCalls, logoutCalls, syncCalls,
                 nextChallenge, nextToken>>
  /\ Observe(i)

\* Lines 60-67: encryption settles; on success loginAccount is called.
LoginEncrypt(i) ==
  /\ call[i].kind = "login" /\ call[i].pc = "encryptData"
  /\ \/ LET device == encryptData(Device, call[i].keys.seed)
        IN /\ call' = [call EXCEPT ![i] =
                Step([@ EXCEPT !.device = device], "loginAccount", "loginAccount")]
           /\ Issue(i, "loginAccount",
                    {call[i].challenge, call[i].signature,
                     bytesToBase64Url(call[i].keys.publicKey), device})
     \/ /\ call' = [call EXCEPT ![i] = Throw(@, "EncryptionError")]
        /\ UNCHANGED remote
  /\ UNCHANGED <<account, loginCalls, logoutCalls, syncCalls,
                 nextChallenge, nextToken>>
  /\ Observe(i)

\* LoginSubmit with the session installed as soon as the submit succeeds.
LoginSubmitInstallsEarly(i) ==
  /\ call[i].kind = "login" /\ call[i].pc = "loginAccount"
  /\ \/ LET loginResult == LoginResponse(call[i].mnemonic, nextToken)
        IN /\ call' = [call EXCEPT ![i] =
                Step([@ EXCEPT !.result = loginResult], "getUser", "getUser")]
           /\ SettleAndIssue(i, "loginAccount",
                             {loginResult.token, loginResult.sessionId},
                             "getUser", {loginResult.token})
           /\ userDataLogin(i, loginResult, NoVal,
                            bytesToBase64(call[i].keys.seed))
           /\ nextToken' = nextToken + 1
     \/ /\ call' = [call EXCEPT ![i] = Throw(@, "LoginSubmitFailed")]
        /\ SettleOnly(i, "loginAccount", "failed", {})
        /\ UNCHANGED <<account, loginCalls, nextToken>>
  /\ UNCHANGED <<logoutCalls, syncCalls, nextChallenge>>
  /\ Observe(i)

\* LoginSubmit with the user fetched by session id instead of bearer token.
LoginSubmitFetchesBySessionId(i) ==
  /\ call[i].kind = "login" /\ call[i].pc = "loginAccount"
  /\ \/ LET loginResult == LoginResponse(call[i].mnemonic, nextToken)
        IN /\ call' = [call EXCEPT ![i] =
                Step([@ EXCEPT !.result = loginResult], "getUser", "getUser")]
           /\ SettleAndIssue(i, "loginAccount",
                             {loginResult.token, loginResult.sessionId},
                             "getUser", {loginResult.sessionId})
           /\ nextToken' = nextToken + 1
     \/ /\ call' = [call EXCEPT ![i] = Throw(@, "LoginSubmitFailed")]
        /\ SettleOnly(i, "loginAccount", "failed", {})
        /\ UNCHANGED nextToken
  /\ UNCHANGED <<account, loginCalls, logoutCalls, syncCalls, nextChallenge>>
  /\ Observe(i)

\* Lines 60-69: the login submit settles; on success the user is fetched
\* with the returned bearer token.
LoginSubmit(i) ==
  /\ call[i].kind = "login" /\ call[i].pc = "loginAccount"
  /\ \/ LET loginResult == LoginResponse(call[i].mnemonic, nextToken)
        IN /\ call' = [call EXCEPT ![i] =
                Step([@ EXCEPT !.result = loginResult], "getUser", "getUser")]
           /\ SettleAndIssue(i, "loginAccount",
                             {loginResult.token, loginResult.sessionId},
                             "getUser", {loginResult.token})
           /\ nextToken' = nextToken + 1
     \/ /\ call' = [call EXCEPT ![i] = Throw(@, "LoginSubmitFailed")]
        /\ SettleOnly(i, "loginAccount", "failed", {})
        /\ UNCHANGED nextToken
  /\ UNCHANGED <<account, loginCalls, logoutCalls, syncCalls, nextChallenge>>
  /\ Observe(i)

\* Lines 69-71: the user fetch settles; on success the seed is encoded and
\* userDataLogin is called with the login result, the user and the seed.
LoginGetUser(i) ==
  /\ call[i].kind = "login" /\ call[i].pc = "getUser"
  /\ \/ LET user == User(call[i].result.token.m)
            seedBase64 == bytesToBase64(call[i].keys.seed)
        IN /\ call' = [call EXCEPT ![i] =
                Step([@ EXCEPT !.user = user], "userDataLogin", "userDataLogin")]
           /\ SettleOnly(i, "getUser", "ok", {user})
           /\ userDataLogin(i, call[i].result, user, seedBase64)
     \/ /\ call' = [call EXCEPT ![i] = Throw(@, "GetUserFailed")]
        /\ SettleOnly(i, "getUser", "failed", {})
        /\ UNCHANGED <<account, loginCalls>>
  /\ UNCHANGED <<logoutCalls, syncCalls, nextChallenge, nextToken>>
  /\ Observe(i)

\* LoginReturn that waits until the store shows the session it installed.
LoginReturnWaitsForStore(i) ==
  /\ call[i].kind = "login" /\ call[i].pc = "userDataLogin"
  /\ account.token = call[i].result.token
  /\ call' = [call EXCEPT ![i].pc = "done"]
  /\ UNCHANGED <<account, remote, loginCalls, logoutCalls, syncCalls,
                 nextChallenge, nextToken>>
  /\ Observe(i)

\* Lines 71-72: userDataLogin's promise settles and login returns.
LoginReturn(i) ==
  /\ call[i].kind = "login" /\ call[i].pc = "userDataLogin"
  /\ call' = [call EXCEPT ![i].pc = "done"]
  /\ UNCHANGED <<account, remote, loginCalls, logoutCalls, syncCalls,
                 nextChallenge, nextToken>>
  /\ Observe(i)

----------------------------------------------------------------------------
\* logout (lines 76-88)

\* LogoutStart without the `if (!currentAccount) return` guard.
LogoutStartUnguarded(i) ==
  /\ CanStart(i)
  /\ call' = [call EXCEPT ![i] =
       Step([@ EXCEPT !.kind = "logout", !.currentAccount = account],
            "removeSession", "removeSession")]
  /\ Issue(i, "removeSession", {account.token, account.sessionId})
  /\ UNCHANGED <<account, loginCalls, logoutCalls, syncCalls,
                 nextChallenge, nextToken>>
  /\ Observe(i)

\* Lines 77-83: logout is called with the currentAccount of its render;
\* without one it returns, otherwise the session's revocation is requested.
LogoutStart(i) ==
  /\ CanStart(i)
  /\ \/ /\ account = NoAccount
        /\ call' = [call EXCEPT ![i] = [@ EXCEPT !.kind = "logout", !.pc = "done"]]
        /\ UNCHANGED remote
     \/ /\ account # NoAccount
        /\ call' = [call EXCEPT ![i] =
             Step([@ EXCEPT !.kind = "logout", !.currentAccount = account],
                  "removeSession", "removeSession")]
        /\ Issue(i, "removeSession", {account.token, account.sessionId})
  /\ UNCHANGED <<account, loginCalls, logoutCalls, syncCalls,
                 nextChallenge, nextToken>>
  /\ Observe(i)

\* LogoutRevoke without the try/catch: a failed revocation is thrown.
LogoutRevokeUncaught(i) ==
  /\ call[i].kind = "logout" /\ call[i].pc = "removeSession"
  /\ \/ /\ SettleOnly(i, "removeSession", "ok", {})
        /\ userDataLogout(i)
        /\ call' = [call EXCEPT ![i] = Step(@, "done", "userDataLogout")]
     \/ /\ SettleOnly(i, "removeSession", "failed", {})
        /\ call' = [call EXCEPT ![i] = Throw(@, "RemoveSessionFailed")]
        /\ UNCHANGED <<account, logoutCalls>>
  /\ UNCHANGED <<loginCalls, syncCalls, nextChallenge, nextToken>>
  /\ Observe(i)

\* Lines 78-87: the revocation settles, either way (a failure is caught and
\* dropped); userDataLogout is called and logout returns.
LogoutRevoke(i) ==
  /\ call[i].kind = "logout" /\ call[i].pc = "removeSession"
  /\ \/ SettleOnly(i, "removeSession", "ok", {})
     \/ SettleOnly(i, "removeSession", "failed", {})
  /\ userDataLogout(i)
  /\ call' = [call EXCEPT ![i] = Step(@, "done", "userDataLogout")]
  /\ UNCHANGED <<loginCalls, syncCalls, nextChallenge, nextToken>>
  /\ Observe(i)


----------------------------------------------------------------------------
\* register (lines 90-112)

\* Line 92: register is called and requests a registration challenge.
RegisterStart(i, m) ==
  /\ CanStart(i)
  /\ call' = [call EXCEPT ![i] =
       Step([@ EXCEPT !.kind = "register", !.mnemonic = m],
            "getRegisterChallengeToken", "getRegisterChallengeToken")]
  /\ Issue(i, "getRegisterChallengeToken", {})
  /\ UNCHANGED <<account, loginCalls, logoutCalls, syncCalls,
                 nextChallenge, nextToken>>
  /\ Observe(i)

\* Lines 92-93: the challenge request settles; on success the keys are
\* derived from the mnemonic.
RegisterChallenge(i) ==
  /\ call[i].kind = "register" /\ call[i].pc = "getRegisterChallengeToken"
  /\ \/ /\ call' = [call EXCEPT ![i] =
                Step([@ EXCEPT !.challenge = Challenge(nextChallenge)],
                     "keysFromMnemonic", "keysFromMnemonic")]
        /\ SettleOnly(i, "getRegisterChallengeToken", "ok",
                      {Challenge(nextChallenge)})
        /\ nextChallenge' = nextChallenge + 1
     \/ /\ call' = [call EXCEPT ![i] = Throw(@, "ChallengeRequestFailed")]
        /\ SettleOnly(i, "getRegisterChallengeToken", "failed", {})
        /\ UNCHANGED nextChallenge
  /\ UNCHANGED <<account, loginCalls, logoutCalls, syncCalls, nextToken>>
  /\ Observe(i)

\* Lines 93-94: key derivation settles; on success the challenge is handed
\* to signChallenge.
RegisterKeys(i) ==
  /\ call[i].kind = "register" /\ call[i].pc = "keysFromMnemonic"
  /\ \/ /\ call[i].mnemonic \in ValidMnemonics
        /\ call' = [call EXCEPT ![i] =
             Step([@ EXCEPT !.keys = keysFromMnemonic(call[i].mnemonic)],
                  "signChallenge", "signChallenge")]
     \/ /\ call[i].mnemonic \notin ValidMnemonics
        /\ call' = [call EXCEPT ![i] = Throw(@, "InvalidMnemonic")]
  /\ UNCHANGED <<account, remote, loginCalls, logoutCalls, syncCalls,
                 nextChallenge, nextToken>>
  /\ Observe(i)

\* Lines 94 and 101: signing settles; on success the device is handed to
\* encryptData.
RegisterSign(i) ==
  /\ call[i].kind = "register" /\ call[i].pc = "signChallenge"
  /\ \/ call' = [call EXCEPT ![i] =
             Step([@ EXCEPT !.signature = signChallenge(call[i].keys, call[i].challenge)],
                  "encryptData", "encryptData")]
     \/ call' = [call EXCEPT ![i] = Throw(@, "SigningError")]
  /\ UNCHANGED <<account, remote, loginCalls, logoutCalls, syncCalls,
                 nextChallenge, nextToken>>
  /\ Observe(i)

\* Lines 95-103: encryption settles; on success registerAccount is called.
RegisterEncrypt(i) ==
  /\ call[i].kind = "register" /\ call[i].pc = "encryptData"
  /\ \/ LET device == encryptData(Device, call[i].keys.seed)
        IN /\ call' = [call EXCEPT ![i] =
                Step([@ EXCEPT !.device = device],
                     "registerAccount", "registerAccount")]
           /\ Issue(i, "registerAccount",
                    {call[i].challenge, call[i].signature,
                     bytesToBase64Url(call[i].keys.publicKey), device, Profile})
     \/ /\ call' = [call EXCEPT ![i] = Throw(@, "EncryptionError")]
        /\ UNCHANGED remote
  /\ UNCHANGED <<account, loginCalls, logoutCalls, syncCalls,
                 nextChallenge, nextToken>>
  /\ Observe(i)

\* RegisterSubmit that hands userDataLogin the seed in the URL alphabet.
RegisterSubmitUrlSeed(i) ==
  /\ call[i].kind = "register" /\ call[i].pc = "registerAccount"
  /\ \/ LET registerResult == RegisterResponse(call[i].mnemonic, nextToken)
        IN /\ call' = [call EXCEPT ![i] =
                Step([@ EXCEPT !.result = registerResult, !.user = registerResult.user],
                     "userDataLogin", "userDataLogin")]
           /\ SettleOnly(i, "registerAccount", "ok",
                {registerResult.token, registerResult.sessionId, registerResult.user})
           /\ userDataLogin(i, registerResult, registerResult.user,
                            bytesToBase64Url(call[i].keys.seed))
           /\ nextToken' = nextToken + 1
     \/ /\ call' = [call EXCEPT ![i] = Throw(@, "RegisterSubmitFailed")]
        /\ SettleOnly(i, "registerAccount", "failed", {})
        /\ UNCHANGED <<account, loginCalls, nextToken>>
  /\ UNCHANGED <<logoutCalls, syncCalls, nextChallenge>>
  /\ Observe(i)

\* Lines 95-109: the register submit settles; on success userDataLogin is
\* called with the response, the user embedded in it and the encoded seed.
RegisterSubmit(i) ==
  /\ call[i].kind = "register" /\ call[i].pc = "registerAccount"
  /\ \/ LET registerResult == RegisterResponse(call[i].mnemonic, nextToken)
        IN /\ call' = [call EXCEPT ![i] =
                Step([@ EXCEPT !.result = registerResult, !.user = registerResult.user],
                     "userDataLogin", "userDataLogin")]
           /\ SettleOnly(i, "registerAccount", "ok",
                {registerResult.token, registerResult.sessionId, registerResult.user})
           /\ userDataLogin(i, registerResult, registerResult.user,
                            bytesToBase64(call[i].keys.seed))
           /\ nextToken' = nextToken + 1
     \/ /\ call' = [call EXCEPT ![i] = Throw(@, "RegisterSubmitFailed")]
        /\ SettleOnly(i, "registerAccount", "failed", {})
        /\ UNCHANGED <<account, loginCalls, nextToken>>
  /\ UNCHANGED <<logoutCalls, syncCalls, nextChallenge>>
  /\ Observe(i)

\* Lines 105-110: userDataLogin's promise settles and register returns.
RegisterReturn(i) ==
  /\ call[i].kind = "register" /\ call[i].pc = "userDataLogin"
  /\ call' = [call EXCEPT ![i].pc = "done"]
  /\ UNCHANGED <<account, remote, loginCalls, logoutCalls, syncCalls,
                 nextChallenge, nextToken>>
  /\ Observe(i)

----------------------------------------------------------------------------
\* restore (lines 114-125)

\* RestoreStart without the `if (!currentAccount) return` guard.
RestoreStartUnguarded(i) ==
  /\ CanStart(i)
  /\ call' = [call EXCEPT ![i] =
       Step([@ EXCEPT !.kind = "restore", !.currentAccount = account],
            "getUser", "getUser")]
  /\ Issue(i, "getUser", {account.token})
  /\ UNCHANGED <<account, loginCalls, logoutCalls, syncCalls,
                 nextChallenge, nextToken>>
  /\ Observe(i)

\* Lines 115-120: restore is called with the currentAccount of its render;
\* without one it returns, otherwise the user is fetched with its token.
RestoreStart(i) ==
  /\ CanStart(i)
  /\ \/ /\ account = NoAccount
        /\ call' = [call EXCEPT ![i] = [@ EXCEPT !.kind = "restore", !.pc = "done"]]
        /\ UNCHANGED remote
     \/ /\ account # NoAccount
        /\ call' = [call EXCEPT ![i] =
             Step([@ EXCEPT !.kind = "restore", !.currentAccount = account],
                  "getUser", "getUser")]
        /\ Issue(i, "getUser", {account.token})
  /\ UNCHANGED <<account, loginCalls, logoutCalls, syncCalls,
                 nextChallenge, nextToken>>
  /\ Observe(i)

\* RestoreGetUser that logs the user out when the user fetch fails.
RestoreGetUserLogsOut(i) ==
  /\ call[i].kind = "restore" /\ call[i].pc = "getUser"
  /\ \/ LET user == User(call[i].currentAccount.token.m)
        IN /\ call' = [call EXCEPT ![i] =
                Step([@ EXCEPT !.user = user], "getBookmarks", "getBookmarks")]
           /\ SettleAndIssue(i, "getUser", {user},
                             "getBookmarks", AccountValues(call[i].currentAccount))
           /\ UNCHANGED <<account, logoutCalls>>
     \/ /\ call' = [call EXCEPT ![i] = Throw(@, "GetUserFailed")]
        /\ SettleOnly(i, "getUser", "failed", {})
        /\ userDataLogout(i)
  /\ UNCHANGED <<loginCalls, syncCalls, nextChallenge, nextToken>>
  /\ Observe(i)

\* RestoreGetUser that swallows a failed user fetch and goes on.
RestoreGetUserContinues(i) ==
  /\ call[i].kind = "restore" /\ call[i].pc = "getUser"
  /\ \/ LET user == User(call[i].currentAccount.token.m)
        IN /\ call' = [call EXCEPT ![i] =
                Step([@ EXCEPT !.user = user], "getBookmarks", "getBookmarks")]
           /\ SettleAndIssue(i, "getUser", {user},
                             "getBookmarks", AccountValues(call[i].currentAccount))
     \/ /\ call' = [call EXCEPT ![i] =
             Step([@ EXCEPT !.error = "GetUserFailed"],
                  "getBookmarks", "getBookmarks")]
        /\ remote' = Settled(i, "getUser", "failed", {})
             \cup {[inv |-> i, op |-> "getBookmarks",
                    input |-> AccountValues(call[i].currentAccount),
                    status |-> "pending", output |-> {}]}
  /\ UNCHANGED <<account, loginCalls, logoutCalls, syncCalls,
                 nextChallenge, nextToken>>
  /\ Observe(i)

\* Lines 120-121: the user fetch settles; on success the bookmarks are
\* fetched, with the whole currentAccount as argument.
RestoreGetUser(i) ==
  /\ call[i].kind = "restore" /\ call[i].pc = "getUser"
  /\ \/ LET user == User(call[i].currentAccount.token.m)
        IN /\ call' = [call EXCEPT ![i] =
                Step([@ EXCEPT !.user = user], "getBookmarks", "getBookmarks")]
           /\ SettleAndIssue(i, "getUser", {user},
                             "getBookmarks", AccountValues(call[i].currentAccount))
     \/ /\ call' = [call EXCEPT ![i] = Throw(@, "GetUserFailed")]
        /\ SettleOnly(i, "getUser", "failed", {})
  /\ UNCHANGED <<account, loginCalls, logoutCalls, syncCalls,
                 nextChallenge, nextToken>>
  /\ Observe(i)

\* RestoreGetBookmarks that reads the store again for the progress fetch
\* instead of using the currentAccount of its render.
RestoreGetBookmarksReadsStore(i) ==
  /\ call[i].kind = "restore" /\ call[i].pc = "getBookmarks"
  /\ \/ LET bookmarks == Bookmarks(call[i].currentAccount.token.m)
        IN /\ call' = [call EXCEPT ![i] =
                Step([@ EXCEPT !.bookmarks = bookmarks], "getProgress", "getProgress")]
           /\ SettleAndIssue(i, "getBookmarks", {bookmarks},
                             "getProgress", AccountValues(account))
     \/ /\ call' = [call EXCEPT ![i] = Throw(@, "GetBookmarksFailed")]
        /\ SettleOnly(i, "getBookmarks", "failed", {})
  /\ UNCHANGED <<account, loginCalls, logoutCalls, syncCalls,
                 nextChallenge, nextToken>>
  /\ Observe(i)

\* Lines 121-122: the bookmarks fetch settles; on success the progress is
\* fetched, with the whole currentAccount as argument.
RestoreGetBookmarks(i) ==
  /\ call[i].kind = "restore" /\ call[i].pc = "getBookmarks"
  /\ \/ LET bookmarks == Bookmarks(call[i].currentAccount.token.m)
        IN /\ call' = [call EXCEPT ![i] =
                Step([@ EXCEPT !.bookmarks = bookmarks], "getProgress", "getProgress")]
           /\ SettleAndIssue(i, "getBookmarks", {bookmarks},
                             "getProgress", AccountValues(call[i].currentAccount))
     \/ /\ call' = [call EXCEPT ![i] = Throw(@, "GetBookmarksFailed")]
        /\ SettleOnly(i, "getBookmarks", "failed", {})
  /\ UNCHANGED <<account, loginCalls, logoutCalls, syncCalls,
                 nextChallenge, nextToken>>
  /\ Observe(i)

\* Lines 122-125: the progress fetch settles; on success syncData is called
\* with the three results and restore returns.
RestoreGetProgress(i) ==
  /\ call[i].kind = "restore" /\ call[i].pc = "getProgress"
  /\ \/ LET progress == Progress(call[i].currentAccount.token.m)
        IN /\ call' = [call EXCEPT ![i] =
                Step([@ EXCEPT !.progress = progress], "done", "syncData")]
           /\ SettleOnly(i, "getProgress", "ok", {progress})
           /\ syncData(i, call[i].user, progress, call[i].bookmarks)
     \/ /\ call' = [call EXCEPT ![i] = Throw(@, "GetProgressFailed")]
        /\ SettleOnly(i, "getProgress", "failed", {})
        /\ UNCHANGED syncCalls
  /\ UNCHANGED <<account, loginCalls, logoutCalls, nextChallenge, nextToken>>
  /\ Observe(i)

----------------------------------------------------------------------------
Next ==
  \E i \in Inv :
     \/ \E m \in Mnemonics : LoginStart(i, m)
     \/ LoginKeys(i)
     \/ LoginChallenge(i)
     \/ LoginSign(i)
     \/ LoginEncrypt(i)
     \/ LoginSubmit(i)
     \/ LoginGetUser(i)
     \/ LoginReturn(i)
     \/ LogoutStart(i)
     \/ LogoutRevoke(i)
     \/ \E m \in Mnemonics : RegisterStart(i, m)
     \/ RegisterChallenge(i)
     \/ RegisterKeys(i)
     \/ RegisterSign(i)
     \/ RegisterEncrypt(i)
     \/ RegisterSubmit(i)
     \/ RegisterReturn(i)
     \/ RestoreStart(i)
     \/ RestoreGetUser(i)
     \/ RestoreGetBookmarks(i)
     \/ RestoreGetProgress(i)

Spec == Init /\ [][Next]_vars

\* The steps that resume invocation i from an await.
Resume(i) ==
  \/ LoginKeys(i)
  \/ LoginChallenge(i)
  \/ LoginSign(i)
  \/ LoginEncrypt(i)
  \/ LoginSubmit(i)
  \/ LoginGetUser(i)
  \/ LoginReturn(i)
  \/ LogoutRevoke(i)
  \/ RegisterChallenge(i)
  \/ RegisterKeys(i)
  \/ RegisterSign(i)
  \/ RegisterEncrypt(i)
  \/ RegisterSubmit(i)
  \/ RegisterReturn(i)
  \/ RestoreGetUser(i)
  \/ RestoreGetBookmarks(i)
  \/ RestoreGetProgress(i)

\* The same, the settling of removeSession apart.
ResumeButRevoke(i) ==
  \/ LoginKeys(i)
  \/ LoginChallenge(i)
  \/ LoginSign(i)
  \/ LoginEncrypt(i)
  \/ LoginSubmit(i)
  \/ LoginGetUser(i)
  \/ LoginReturn(i)
  \/ RegisterChallenge(i)
  \/ RegisterKeys(i)
  \/ RegisterSign(i)
  \/ RegisterEncrypt(i)
  \/ RegisterSubmit(i)
  \/ RegisterReturn(i)
  \/ RestoreGetUser(i)
  \/ RestoreGetBookmarks(i)
  \/ RestoreGetProgress(i)

\* Every awaited operation settles: each promise resolves or rejects and
\* the event loop resumes the callback awaiting it.  Stated in its weakest
\* form: while some callback is suspended, one of them is resumed.
FairSpec == Spec /\ WF_vars(\E i \in Inv : Resume(i))

\* Every awaited operation settles except removeSession, which the
\* transport, having no timeout of its own, may leave pending for ever.
RevokeMayHangSpec == Spec /\ \A i \in Inv : WF_vars(ResumeButRevoke(i))


----------------------------------------------------------------------------
\* What one invocation did.
RemoteBy(i) == {r \in remote : r.inv = i}
LoginCallsBy(i) == {c \in loginCalls : c.inv = i}
SyncCallsBy(i) == {c \in syncCalls : c.inv = i}
IsHandshake(i) == call[i].kind \in {"login", "register"}

\* C1: a login or register invocation that failed, at whatever step, never
\* called userDataLogin and no step of it changed the stored session.
C1_FailedHandshakeLeavesSession ==
  \A i \in Inv :
    (IsHandshake(i) /\ call[i].pc = "failed") =>
      /\ LoginCallsBy(i) = {}
      /\ i \notin logoutCalls
      /\ ~changed[i]

\* A login that got as far as the user fetch and failed there, with the
\* session of the earlier run still stored.
C1_Witness ==
  \E i \in Inv :
    /\ call[i].kind = "login" /\ call[i].pc = "failed"
    /\ call[i].error = "GetUserFailed"
    /\ account = PriorAccount

\* C2: a logout called with a session ends by returning, never by throwing,
\* has called userDataLogout, and the client is not logged in when it
\* returns, whether the revocation succeeded or failed.
C2_LogoutResilience ==
  \A i \in Inv :
    (call[i].kind = "logout" /\ authAtStart[i] /\ Ended(call[i])) =>
      /\ call[i].pc = "done"
      /\ call[i].error = "-"
      /\ i \in logoutCalls
      /\ ~authAtReturn[i]

\* A logout that returned after its removeSession call failed.
C2_Witness ==
  \E i \in Inv :
    /\ call[i].kind = "logout" /\ call[i].pc = "done"
    /\ \E r \in RemoteBy(i) : r.op = "removeSession" /\ r.status = "failed"

\* C3: of two login invocations with the same mnemonic, the second called
\* while the first was in flight, at most one calls userDataLogin: exactly
\* one session is established, the second call joining the first or being
\* rejected, never installing a session of its own.
C3_SingleFlightLogin ==
  \A i, j \in Inv :
    (/\ call[i].kind = "login" /\ call[j].kind = "login"
     /\ call[i].mnemonic = call[j].mnemonic
     /\ i \in overlaps[j]) =>
      Cardinality(LoginCallsBy(i) \cup LoginCallsBy(j)) <= 1

\* C4: a login whose mnemonic is invalid issues no remote call: it is still
\* deriving keys or has failed with InvalidMnemonic.
C4_LoginInvalidMnemonicNoRemoteCall ==
  \A i \in Inv :
    (call[i].kind = "login" /\ call[i].mnemonic \notin ValidMnemonics) =>
      /\ RemoteBy(i) = {}
      /\ call[i].pc \in {"keysFromMnemonic", "failed"}
      /\ call[i].pc = "failed" => call[i].error = "InvalidMnemonic"

\* A login that failed with InvalidMnemonic.
C4_Witness ==
  \E i \in Inv :
    /\ call[i].kind = "login" /\ call[i].pc = "failed"
    /\ call[i].error = "InvalidMnemonic"

\* C5: a register that failed with InvalidMnemonic has issued no remote call.
C5_RegisterInvalidMnemonicNoRemoteCall ==
  \A i \in Inv :
    (call[i].kind = "register" /\ call[i].error = "InvalidMnemonic") =>
      RemoteBy(i) = {}

IsPrefix(s, t) == Len(s) <= Len(t) /\ \A k \in 1..Len(s) : s[k] = t[k]

LoginOrder ==
  <<"keysFromMnemonic", "getLoginChallengeToken", "signChallenge",
    "loginAccount", "getUser", "userDataLogin">>

NotEncrypt(name) == name # "encryptData"

\* C6: the steps of a login, the device encryption apart, are a prefix of
\* key derivation, challenge request, signing, submit, user fetch,
\* userDataLogin; userDataLogin is called at most once, after a successful
\* user fetch, with the session the submit returned, the user fetched with
\* that session's bearer token and the base64 seed of the mnemonic's keys.
C6_LoginInstallsLast ==
  \A i \in Inv :
    call[i].kind = "login" =>
      /\ IsPrefix(SelectSeq(call[i].steps, NotEncrypt), LoginOrder)
      /\ Cardinality(LoginCallsBy(i)) <= 1
      /\ \A c \in LoginCallsBy(i) :
           /\ \E r \in RemoteBy(i) :
                /\ r.op = "loginAccount" /\ r.status = "ok"
                /\ r.output = {c.session.token, c.session.sessionId}
           /\ \E r \in RemoteBy(i) :
                /\ r.op = "getUser" /\ r.status = "ok"
                /\ r.input = {c.session.token}
                /\ r.output = {c.user}
           /\ c.session.token.tag = "token"
           /\ c.seed = [tag |-> "seed", m |-> call[i].mnemonic, n |-> 0,
                        d |-> "-", enc |-> "base64"]

\* A login that called userDataLogin and returned.
C6_Witness ==
  \E i \in Inv :
    /\ call[i].kind = "login" /\ call[i].pc = "done"
    /\ LoginCallsBy(i) # {}

\* C7: a restore called with no session returns without error, issues no
\* remote call, does not call syncData and leaves the session as it was.
C7_RestoreWithoutSessionNoop ==
  \A i \in Inv :
    (call[i].kind = "restore" /\ ~authAtStart[i]) =>
      /\ call[i].pc = "done"
      /\ call[i].error = "-"
      /\ RemoteBy(i) = {}
      /\ SyncCallsBy(i) = {}
      /\ ~changed[i]
      /\ ~authAtReturn[i]

\* A restore called with no session, while another invocation made remote calls.
C7_Witness ==
  \E i \in Inv :
    /\ call[i].kind = "restore" /\ ~authAtStart[i] /\ call[i].pc = "done"
    /\ \E r \in remote : r.inv # i

C9_LogoutWithoutSessionNoop ==
  \A i \in Inv :
    (call[i].kind = "logout" /\ ~authAtStart[i]) =>
      /\ RemoteBy(i) = {}
      /\ i \notin logoutCalls
      /\ call[i].pc = "done"
      /\ call[i].error = "-"

\* A logout called with no session, after an earlier logout cleared it.
C9_Witness ==
  \E i \in Inv :
    /\ call[i].kind = "logout" /\ ~authAtStart[i] /\ call[i].pc = "done"
    /\ logoutCalls # {}

\* What may go to the remote service, and what must not.
Transmissible(v) ==
  \/ v.tag \in {"challenge", "signature", "encrypted", "profile", "token", "sessionId"}
  \/ v.tag = "publicKey" /\ v.enc = "base64url"

Secret(v) == v.tag \in {"mnemonic", "privateKey", "seed"}

\* C10: the input of every remote call holds only the challenge code, the
\* signature, the base64url public key, the encrypted device, the profile,
\* the bearer token or the session id, and never the mnemonic, the private
\* key or the seed.
C10_NoSecretInRemoteInput ==
  \A r \in remote :
    \A v \in r.input : Transmissible(v) /\ ~Secret(v)


----------------------------------------------------------------------------
\* The session a userDataLogin call installs.
InstalledBy(c) ==
  [token |-> c.session.token, sessionId |-> c.session.sessionId,
   user |-> c.user, seed |-> c.seed]

\* A session with every field set, all for the same account and issue.
Whole(a) ==
  /\ a.token.tag = "token" /\ a.sessionId.tag = "sessionId"
  /\ a.user.tag = "user"
  /\ a.seed.tag = "seed" /\ a.seed.enc = "base64"
  /\ a.sessionId.n = a.token.n
  /\ a.sessionId.m = a.token.m /\ a.user.m = a.token.m /\ a.seed.m = a.token.m

\* C11: the stored session is absent, or is one whole session: the one of
\* the earlier run, or the one a single login or register invocation, which
\* got that far, installed with its own result, user and seed.
C11_SingleWholeSession ==
  \/ account = NoAccount
  \/ /\ Whole(account)
     /\ \/ account = PriorAccount
        \/ \E c \in loginCalls :
             /\ account = InstalledBy(c)
             /\ call[c.inv].pc \in {"userDataLogin", "done"}
             /\ call[c.inv].result.token = account.token
             /\ call[c.inv].user = account.user
             /\ call[c.inv].mnemonic = account.seed.m

\* Two handshakes have each installed a session and one of them is stored.
C11_Witness ==
  /\ \E c, d \in loginCalls : c.inv # d.inv
  /\ loggedIn

\* C12: a logout suspended in its removeSession call eventually calls
\* userDataLogout, even when removeSession never settles.
C12_LogoutNeverBlocked ==
  \A i \in Inv :
    (call[i].kind = "logout" /\ call[i].pc = "removeSession")
      ~> (i \in logoutCalls)

Count(seq, names) == Cardinality({k \in 1..Len(seq) : seq[k] \in names})

\* C13: a register requests its challenge with no input, makes no remote
\* call but the challenge request and the submit, and calls userDataLogin
\* exactly when its submit succeeded, once, with the response, the user
\* embedded in that response and the base64 seed of the mnemonic's keys.
C13_RegisterEmbedsUser ==
  \A i \in Inv :
    call[i].kind = "register" =>
      /\ \A r \in RemoteBy(i) :
           /\ r.op \in {"getRegisterChallengeToken", "registerAccount"}
           /\ r.op = "getRegisterChallengeToken" => r.input = {}
      /\ Count(call[i].steps, {"userDataLogin"}) <= 1
      /\ Count(call[i].steps, {"getUser"}) = 0
      /\ (LoginCallsBy(i) # {}) <=>
           (\E r \in RemoteBy(i) : r.op = "registerAccount" /\ r.status = "ok")
      /\ Cardinality(LoginCallsBy(i)) <= 1
      /\ \A c \in LoginCallsBy(i) :
           /\ \E r \in RemoteBy(i) :
                /\ r.op = "registerAccount" /\ r.status = "ok"
                /\ r.output = {c.session.token, c.session.sessionId, c.session.user}
           /\ c.user = c.session.user
           /\ c.user.tag = "user"
           /\ c.seed = [tag |-> "seed", m |-> call[i].mnemonic, n |-> 0,
                        d |-> "-", enc |-> "base64"]

\* A register that called userDataLogin and returned.
C13_Witness ==
  \E i \in Inv :
    /\ call[i].kind = "register" /\ call[i].pc = "done"
    /\ LoginCallsBy(i) # {}

\* C14: a failed login has thrown LoginFailed and a failed register
\* RegistrationFailed, never the error of the inner step.
C14_TypedHandshakeFailures ==
  \A i \in Inv :
    /\ (call[i].kind = "login" /\ call[i].pc = "failed") =>
         call[i].error = "LoginFailed"
    /\ (call[i].kind = "register" /\ call[i].pc = "failed") =>
         call[i].error = "RegistrationFailed"

Submits == {r \in remote : r.op \in {"loginAccount", "registerAccount"}}
ChallengeRequests ==
  {r \in remote : r.op \in {"getLoginChallengeToken", "getRegisterChallengeToken"}}
ChallengesIn(r) == {v \in r.input : v.tag = "challenge"}
SignaturesIn(r) == {v \in r.input : v.tag = "signature"}

\* C15: every submit carries one challenge code, the one its own
\* invocation's challenge request returned, and one signature, made over
\* that code with the invocation's private key; an invocation requests one
\* challenge and submits at most once, and no two invocations submit the
\* same challenge code.
C15_ChallengeUsedOnce ==
  /\ \A r \in Submits :
       /\ Cardinality(ChallengesIn(r)) = 1
       /\ Cardinality(SignaturesIn(r)) = 1
       /\ \E q \in ChallengeRequests :
            q.inv = r.inv /\ q.status = "ok" /\ q.output = ChallengesIn(r)
       /\ \A c \in ChallengesIn(r) : \A g \in SignaturesIn(r) :
            g.n = c.n /\ g.m = call[r.inv].mnemonic
  /\ \A r1, r2 \in Submits :
       r1.inv # r2.inv => ChallengesIn(r1) \cap ChallengesIn(r2) = {}
  /\ \A i \in Inv :
       /\ Count(call[i].steps, {"loginAccount", "registerAccount"}) <= 1
       /\ Count(call[i].steps, {"getLoginChallengeToken",
                                "getRegisterChallengeToken"}) <= 1

\* Two invocations have each submitted a challenge.
C15_Witness ==
  \E r1, r2 \in Submits : r1.inv # r2.inv

\* C16: syncData is called only while the session the data was fetched for,
\* the currentAccount of the restore, is still the stored session.
C16_SyncOnlyUnderFetchedSession ==
  \A i \in Inv :
    SyncCallsBy(i) # {} => syncedUnder[i] = call[i].currentAccount

\* The step at which each error is thrown.
FailingSteps(err) ==
  CASE err = "InvalidMnemonic" -> {"keysFromMnemonic"}
    [] err = "ChallengeRequestFailed" ->
         {"getLoginChallengeToken", "getRegisterChallengeToken"}
    [] err = "SigningError" -> {"signChallenge"}
    [] err = "EncryptionError" -> {"encryptData"}
    [] err = "LoginSubmitFailed" -> {"loginAccount"}
    [] err = "RegisterSubmitFailed" -> {"registerAccount"}
    [] err = "GetUserFailed" -> {"getUser"}
    [] err = "GetBookmarksFailed" -> {"getBookmarks"}
    [] err = "GetProgressFailed" -> {"getProgress"}
    [] OTHER -> {}

LastStep(i) == call[i].steps[Len(call[i].steps)]

\* C17: in login, register and restore the step that failed is the last
\* step the invocation took: a failed remote call or crypto step ends the
\* invocation, which has no call pending and takes no further step.
C17_FailStop ==
  \A i \in Inv :
    call[i].kind \in {"login", "register", "restore"} =>
      /\ \A r \in RemoteBy(i) :
           r.status = "failed" => call[i].pc = "failed" /\ LastStep(i) = r.op
      /\ call[i].error # "-" =>
           /\ call[i].pc = "failed"
           /\ LastStep(i) \in FailingSteps(call[i].error)
           /\ \A r \in RemoteBy(i) : r.status # "pending"
           /\ ~ENABLED Resume(i)

\* A login whose submit failed: it fetched no user.
C17_Witness ==
  \E i \in Inv :
    /\ call[i].kind = "login" /\ call[i].error = "LoginSubmitFailed"
    /\ \E r \in RemoteBy(i) : r.op = "loginAccount" /\ r.status = "failed"

\* C18: no invocation stays suspended for ever: from some point on every
\* invocation is either not called or has returned or thrown; and a login
\* or register that returned has called userDataLogin.
C18_EveryInvocationEnds ==
  /\ <>[](\A i \in Inv : call[i].pc = "idle" \/ Ended(call[i]))
  /\ [](\A i \in Inv :
          (IsHandshake(i) /\ call[i].pc = "done") => LoginCallsBy(i) # {})

\* All invocations have ended, a login established and another invocation
\* failed.
C18_Witness ==
  /\ \A i \in Inv : Ended(call[i])
  /\ \E i \in Inv : call[i].kind = "login" /\ call[i].pc = "done"
  /\ \E i \in Inv : call[i].pc = "failed"

\* C19: the session a logout clears is the one whose token and session id
\* it passed to removeSession, the currentAccount of the logout.
C19_LogoutClearsRevokedSession ==
  \A i \in Inv :
    (call[i].kind = "logout" /\ clearedAccount[i] # NoAccount) =>
      clearedAccount[i] = call[i].currentAccount

RestoreOrder == <<"getUser", "getBookmarks", "getProgress", "syncData">>

OkOutput(i, op) ==
  UNION {r.output : r \in {q \in RemoteBy(i) : q.op = op /\ q.status = "ok"}}

\* C20: a restore called with session S fetches the user with S's token and
\* the bookmarks and progress with S, in that order, and calls syncData at
\* most once, exactly when all three fetches succeeded, with their three
\* results, whatever the stored session has become meanwhile.
C20_RestoreUsesOneSession ==
  \A i \in Inv :
    (call[i].kind = "restore" /\ authAtStart[i]) =>
      LET S == call[i].currentAccount IN
      /\ S # NoAccount
      /\ IsPrefix(call[i].steps, RestoreOrder)
      /\ \A r \in RemoteBy(i) :
           /\ r.op \in {"getUser", "getBookmarks", "getProgress"}
           /\ r.op = "getUser" => r.input = {S.token}
           /\ r.op \in {"getBookmarks", "getProgress"} =>
                r.input = AccountValues(S)
      /\ Cardinality(SyncCallsBy(i)) <= 1
      /\ (SyncCallsBy(i) # {}) <=>
           (\A op \in {"getUser", "getBookmarks", "getProgress"} :
              OkOutput(i, op) # {})
      /\ \A c \in SyncCallsBy(i) :
           /\ OkOutput(i, "getUser") = {c.user}
           /\ OkOutput(i, "getBookmarks") = {c.bookmarks}
           /\ OkOutput(i, "getProgress") = {c.progress}
           /\ c.user.m = S.token.m
           /\ c.bookmarks.m = S.token.m
           /\ c.progress.m = S.token.m

\* A restore that called syncData after the stored session had changed.
C20_Witness ==
  \E i \in Inv :
    /\ call[i].kind = "restore" /\ SyncCallsBy(i) # {}
    /\ account # call[i].currentAccount

====
